---- MODULE Spec2Model ----
(***************************************************************************)
(* Model of the deployment submit / status poll / inference core of        *)
(* ai-builder-cli: class OpenShiftDeployment and class RHODSIntegration     *)
(* (src/unnamed/part_000).  One instance of one of the two classes is       *)
(* modelled; library calls on it (deployModel, runInference) are async       *)
(* functions whose steps interleave at their await points.                  *)
(***************************************************************************)
EXTENDS Integers, FiniteSets, Sequences, TLC

(* ------------------------------ bounds --------------------------------- *)
\* Number of library calls made on the instance in one behaviour.
MaxCalls == 2
\* Number of 'Retrying CLI startup' cycles of bootstrap.js that are followed.
MaxRetries == 2
\* Attempt budget of monitorDeployment.  The source fixes it at 30
\* (part_000:422 and :951); the loop body does not depend on the value, so
\* the model runs it with a small budget.
maxAttempts == 2

Calls == 1..MaxCalls
\* Model names the callers use: "m1" is deployed, "ghost-model" is only ever
\* asked for (status, inference), never submitted.
DeployNames == {"m1"}
Names == DeployNames \cup {"ghost-model"}
Impls == {"openshift", "rhods"}
Endpoints == {"e1", "e2"}
RemoteMsg == "boom"

(* ------------------------- the remote's answers ------------------------ *)
\* One HTTP exchange as the client sees it: net = "fail" is a transport
\* error (req.on('error')); otherwise a status code and a body that is not
\* JSON ("garbage"), the JSON value null ("null"), or a JSON object with the
\* fields the client reads ("undefined" = field absent).
Resp(net, code, body, success, status, endpoint, error) ==
    [net |-> net, code |-> code, body |-> body, success |-> success,
     status |-> status, endpoint |-> endpoint, error |-> error]

NetFail == Resp("fail", 0, "garbage", FALSE, "undefined", "undefined", "undefined")
Garbage(code) == Resp("ok", code, "garbage", FALSE, "undefined", "undefined", "undefined")
NullBody(code) == Resp("ok", code, "null", FALSE, "undefined", "undefined", "undefined")
Json(code, success, status, endpoint, error) ==
    Resp("ok", code, "json", success, status, endpoint, error)

RemoteStatuses == {"ready", "succeeded", "failed", "error", "deploying", "undefined"}

SubmitResponses ==
    {NetFail, Garbage(200), Garbage(500), NullBody(200), NullBody(500)}
    \cup {Json(200, TRUE, "undefined", e, "undefined") : e \in Endpoints}
    \cup {Json(c, FALSE, "undefined", "undefined", m) :
             c \in {200, 500}, m \in {"undefined", RemoteMsg}}

StatusResponses ==
    {NetFail, Garbage(200), NullBody(200)}
    \cup {Json(500, FALSE, "undefined", "undefined", m) : m \in {"undefined", RemoteMsg}}
    \cup {Json(200, FALSE, s, "undefined", "undefined") : s \in RemoteStatuses}
    \cup {Json(200, FALSE, s, "undefined", RemoteMsg) : s \in {"failed", "error"}}

InferResponses ==
    {NetFail, Garbage(200), NullBody(200),
     Json(200, FALSE, "undefined", "undefined", "undefined"),
     Json(500, FALSE, "undefined", "undefined", RemoteMsg)}

\* Transport error / protocol error of one exchange (spec section 7).
TransportError(r) == r.net = "fail"
ProtocolError(r) == r.net = "ok" /\ (r.body = "garbage" \/ ~(r.code >= 200 /\ r.code < 300))

(* --------------------------- HTTP wrappers ----------------------------- *)
\* A settled promise: resolved with a value (isnull: the value is null) or
\* rejected with an Error whose message is in field error.
Reject(m) ==
    [resolved |-> FALSE, isnull |-> FALSE, success |-> FALSE,
     status |-> "undefined", endpoint |-> "undefined", error |-> m]
Resolve(r) ==
    [resolved |-> TRUE, isnull |-> r.body = "null",
     success |-> IF r.body = "json" THEN r.success ELSE FALSE,
     status |-> IF r.body = "json" THEN r.status ELSE "undefined",
     endpoint |-> IF r.body = "json" THEN r.endpoint ELSE "undefined",
     error |-> IF r.body = "json" THEN r.error ELSE "undefined"]
ResolveInvalid ==
    [resolved |-> TRUE, isnull |-> FALSE, success |-> FALSE,
     status |-> "undefined", endpoint |-> "undefined", error |-> "Invalid response"]

\* OpenShiftDeployment.makeRequest
makeRequest(r) ==
    IF r.net = "fail" THEN Reject("transport")
    ELSE IF r.body = "garbage" THEN Reject("Invalid response")
    ELSE IF r.code >= 200 /\ r.code < 300 THEN Resolve(r)
    ELSE IF r.body = "null" THEN Reject("Invalid response")
    ELSE Reject(IF r.error # "undefined" THEN r.error ELSE "HTTP")

\* RHODSIntegration.makeRHODSRequest
makeRHODSRequest(r) ==
    IF r.net = "fail" THEN Reject("transport")
    ELSE IF r.body = "garbage" THEN ResolveInvalid
    ELSE IF r.code >= 200 /\ r.code < 300 THEN Resolve(r)
    ELSE IF r.body = "null" THEN ResolveInvalid
    ELSE Reject(IF r.error # "undefined" THEN r.error ELSE "HTTP")

\* RHODSIntegration.makeInferenceRequest
makeInferenceRequest(r) ==
    IF r.net = "fail" THEN Reject("transport")
    ELSE IF r.body = "garbage" THEN Reject("Invalid response")
    ELSE Resolve(r)

\* The request wrapper deployModel / getDeploymentStatus use in each class.
ApiRequest(i, r) == IF i = "openshift" THEN makeRequest(r) ELSE makeRHODSRequest(r)
\* The request wrapper runInference uses in each class.
InferRequest(i, r) == IF i = "openshift" THEN makeRequest(r) ELSE makeInferenceRequest(r)

\* Variant: the request is awaited without the try/catch.
getDeploymentStatusNoCatch(i, r) == ApiRequest(i, r)

\* getDeploymentStatus: a rejected request becomes {status: 'unknown', error}.
getDeploymentStatus(i, r) ==
    LET p == ApiRequest(i, r) IN
    IF p.resolved THEN p
    ELSE [resolved |-> TRUE, isnull |-> FALSE, success |-> FALSE,
          status |-> "unknown", endpoint |-> "undefined", error |-> p.error]

(* ------------------------- monitorDeployment --------------------------- *)
\* The status strings each poller treats as terminal.
isReady(i, st) ==
    IF i = "openshift" THEN st = "ready" ELSE st \in {"ready", "succeeded"}
isFailed(i, st) ==
    IF i = "openshift" THEN st = "failed" ELSE st \in {"failed", "error"}

\* Message of the Error thrown for a failed status.
FailedMessage(i, e) ==
    IF i = "openshift"
    THEN (IF e = "undefined" THEN "Deployment failed: undefined"
          ELSE "Deployment failed: boom")
    ELSE (IF e = "undefined" THEN "Deployment failed: Unknown error"
          ELSE "Deployment failed: boom")

\* Variant: a failed status is returned to the caller like a ready one.
TryBodyFailedReturned(i, s) ==
    IF ~s.resolved THEN [k |-> "throw", kind |-> "Error", msg |-> s.error]
    ELSE IF s.isnull THEN [k |-> "throw", kind |-> "Error", msg |-> "TypeError"]
    ELSE IF isReady(i, s.status) THEN [k |-> "return", kind |-> "Ready", msg |-> "none"]
    ELSE IF isFailed(i, s.status)
         THEN [k |-> "return", kind |-> "Failed", msg |-> FailedMessage(i, s.error)]
    ELSE [k |-> "sleep", kind |-> "none", msg |-> "none"]

\* What one pass through the try block does with the awaited status s:
\* return it, throw, or fall through to the sleep at the end of the block.
TryBody(i, s) ==
    IF ~s.resolved THEN [k |-> "throw", kind |-> "Error", msg |-> s.error]
    ELSE IF s.isnull THEN [k |-> "throw", kind |-> "Error", msg |-> "TypeError"]
    ELSE IF isReady(i, s.status) THEN [k |-> "return", kind |-> "Ready", msg |-> "none"]
    ELSE IF isFailed(i, s.status)
         THEN [k |-> "throw", kind |-> "Failed", msg |-> FailedMessage(i, s.error)]
    ELSE [k |-> "sleep", kind |-> "none", msg |-> "none"]

\* The catch block: rethrow on the last attempt, otherwise sleep.
Catch(attempt, t) ==
    IF attempt = maxAttempts THEN t
    ELSE [k |-> "sleep", kind |-> "none", msg |-> "none"]

\* Variant: on the last attempt a status that is still in progress is taken
\* as ready.
IterationLastAttemptReady(i, attempt, s) ==
    LET t == TryBody(i, s) IN
    IF t.k = "throw" THEN Catch(attempt, t)
    ELSE IF t.k = "sleep" /\ attempt = maxAttempts
         THEN [k |-> "return", kind |-> "Ready", msg |-> "none"]
    ELSE t

\* One loop iteration from the awaited status to its exit or its sleep.
Iteration(i, attempt, s) ==
    LET t == TryBody(i, s) IN
    IF t.k = "throw" THEN Catch(attempt, t) ELSE t

\* The ready and failed synonyms of spec section 4.2.
ReadySynonyms == {"ready", "succeeded"}
FailedSynonyms == {"failed", "error"}

(* ------------------------------ state ---------------------------------- *)
VARIABLES
    impl,       \* which class the instance is: "openshift" or "rhods"
    store,      \* this.deployments / this.models: name -> record
    authToken,  \* RHODSIntegration.authToken is set
    calls,      \* the library calls in progress, one record per call
    accepted,   \* history: name -> endpoint in the latest accepted submit response
    proc,       \* the CLI process that makes call c: command, handler, end, log
    boot        \* AutoBootstrap (bootstrap.js): its files and where it stands

vars == <<impl, store, authToken, calls, accepted, proc, boot>>

NoRecord == [status |-> "none", endpoint |-> "none"]

\* A call that has not been made yet.  op, name: the library function and its
\* model name; pc: where the async function is suspended; attempt, status: the
\* loop variables of monitorDeployment; outcome, errmsg: what the call returned
\* or threw.  History of the call, for the properties: nreq, nq, ns count its
\* outbound requests, its status queries and its sleeps; sub is the kind of
\* submit response it received; qerr: the status query of the current
\* iteration raised a transport or protocol error; priorPending: every
\* attempt before the current one returned a non-terminal status; how: the
\* outcome was returned ("return") or thrown ("throw").
IdleCall ==
    [op |-> "none", name |-> "none", pc |-> "idle", attempt |-> 0,
     status |-> "none", outcome |-> "none", errmsg |-> "none",
     nreq |-> 0, nq |-> 0, ns |-> 0,
     sub |-> "none", qerr |-> FALSE, priorPending |-> TRUE, how |-> "none"]

\* No CLI process: the call is made on the library directly.  cmd is the
\* command word, model the model name given, handler the method execute()
\* invoked, end how the process ended ("completed", or "crashed" on an
\* uncaught exception), log the error message the CLI printed.
NoProc ==
    [cmd |-> "none", model |-> "none", handler |-> "none", end |-> "none",
     log |-> "none"]

\* bootstrap.js is not running.  files: the required files that exist; lib:
\* what require('./lib/index.js') does ("ok", "missing": it throws 'Cannot
\* find module', "broken": it throws something else); pc: where the script
\* stands; from: who called ensureSetup; retries: the number of 'Retrying
\* CLI startup' cycles so far.
BootOff ==
    [files |-> {}, lib |-> "ok", pc |-> "off", from |-> "none", retries |-> 0]

Init ==
    /\ impl \in Impls
    /\ store = [n \in Names |-> NoRecord]
    /\ authToken = FALSE
    /\ calls = [c \in Calls |-> IdleCall]
    /\ accepted = [n \in Names |-> "none"]
    /\ proc = [c \in Calls |-> NoProc]
    /\ boot = BootOff

\* The call ends: the async function returns (Ready, Result) or throws.
Finish(cs, kind, msg) ==
    [cs EXCEPT !.pc = "done", !.outcome = kind, !.errmsg = msg]

\* return value;
Return(cs, kind) == [Finish(cs, kind, "none") EXCEPT !.how = "return"]

\* throw new Error(msg), or an error propagating out of the function.
Throw(cs, kind, msg) == [Finish(cs, kind, msg) EXCEPT !.how = "throw"]

\* The exit t of a loop iteration leaves the function.
Exit(cs, t) ==
    IF t.k = "return" THEN Return(cs, t.kind) ELSE Throw(cs, t.kind, t.msg)

\* await this.getDeploymentStatus(modelName): the status request goes out.
IssueQuery(cs) ==
    [cs EXCEPT !.pc = "query",
               !.nq = @ + 1, !.nreq = @ + 1]

\* for (attempt = 1; ...): entry of monitorDeployment.
StartMonitor(cs) == IssueQuery([cs EXCEPT !.attempt = 1])

\* A status string that is neither a ready nor a failed synonym.
PendingStatus(st) ==
    st \notin (ReadySynonyms \cup FailedSynonyms \cup {"null", "rejected", "none"})

\* The iteration is over: its status goes out of scope.
EndIteration(cs) ==
    [cs EXCEPT !.priorPending = @ /\ PendingStatus(cs.status),
               !.status = "none", !.qerr = FALSE]

\* Variant: the loop test is attempt <= maxAttempts + 1.
NextAttemptOffByOne(cs) ==
    IF cs.attempt < maxAttempts + 1
    THEN IssueQuery([EndIteration(cs) EXCEPT !.attempt = @ + 1])
    ELSE Throw(EndIteration(cs), "Timeout", "Deployment timeout")

\* Variant: nothing is thrown after the loop, the function just returns.
NextAttemptNoThrow(cs) ==
    IF cs.attempt < maxAttempts
    THEN IssueQuery([EndIteration(cs) EXCEPT !.attempt = @ + 1])
    ELSE Return(EndIteration(cs), "none")

\* Variant: after the last attempt the function neither queries again nor
\* throws, it stays suspended.
NextAttemptNeverEnds(cs) ==
    IF cs.attempt < maxAttempts
    THEN IssueQuery([EndIteration(cs) EXCEPT !.attempt = @ + 1])
    ELSE cs

\* attempt++ and the loop test; after the loop: throw 'Deployment timeout'.
NextAttempt(cs) ==
    IF cs.attempt < maxAttempts
    THEN IssueQuery([EndIteration(cs) EXCEPT !.attempt = @ + 1])
    ELSE Throw(EndIteration(cs), "Timeout", "Deployment timeout")

\* Variant: this.sleep(delay) is called but not awaited.
SuspendNotAwaited(cs) == NextAttempt(cs)

\* await this.sleep(delay)
Suspend(cs) == [cs EXCEPT !.pc = "sleep", !.ns = @ + 1]

(* ----------------------- the steps of the calls ------------------------- *)
\* The status string the poller reads off the awaited value.
StatusOf(s) ==
    IF ~s.resolved THEN "rejected" ELSE IF s.isnull THEN "null" ELSE s.status

\* The status response of the current attempt arrives: the rest of the loop
\* iteration runs, up to the return, the throw or the sleep.
OnStatus(i, cs, r) ==
    LET s == getDeploymentStatus(i, r)
        it == Iteration(i, cs.attempt, s)
        seen == [cs EXCEPT !.status = StatusOf(s),
                           !.qerr = TransportError(r) \/ ProtocolError(r)]
    IN  IF it.k = "sleep" THEN Suspend(seen) ELSE Exit(seen, it)

\* Variant: every resolved response counts as accepted.
AcceptedAnyBody(p) == p.resolved /\ ~p.isnull

\* if (response.success)
Accepted(p) == p.resolved /\ ~p.isnull /\ p.success

\* Variant: the record is built without the response's endpoint.
NewRecordNoEndpoint(p) == [status |-> "deploying", endpoint |-> "undefined"]

\* The record deployModel inserts.
NewRecord(p) == [status |-> "deploying", endpoint |-> p.endpoint]

\* The kind of answer a submit request got (spec section 4.1).
SubmitClass(r) ==
    IF r.net = "fail" THEN "transport"
    ELSE IF r.body = "garbage" THEN "unparseable"
    ELSE IF r.body = "null" THEN "null"
    ELSE IF ~(r.code >= 200 /\ r.code < 300)
         THEN (IF r.error = "undefined" THEN "http" ELSE "http-message")
    ELSE IF r.success THEN "accepted"
    ELSE IF r.error = "undefined" THEN "refused" ELSE "refused-message"

\* Variant: a submit that was rejected is sent once more.
OnSubmitRetry(i, cs, r) ==
    LET p == ApiRequest(i, r)
        got == [cs EXCEPT !.sub = SubmitClass(r)]
    IN  IF ~p.resolved /\ cs.nreq < 2 THEN [cs EXCEPT !.nreq = @ + 1]
        ELSE IF ~p.resolved THEN Throw(got, "SubmissionError", p.error)
        ELSE IF p.isnull THEN Throw(got, "SubmissionError", "TypeError")
        ELSE IF Accepted(p) THEN StartMonitor(got)
        ELSE Throw(got, "SubmissionError",
                   IF p.error # "undefined" THEN p.error ELSE "Deployment failed")

\* Variant: monitorDeployment is started before the response is looked at.
OnSubmitMonitorsAnyway(i, cs, r) ==
    StartMonitor([cs EXCEPT !.sub = SubmitClass(r)])

\* deployModel after the submit response: start monitoring or throw.
OnSubmit(i, cs, r) ==
    LET p == ApiRequest(i, r)
        got == [cs EXCEPT !.sub = SubmitClass(r)]
    IN  IF ~p.resolved THEN Throw(got, "SubmissionError", p.error)
        ELSE IF p.isnull THEN Throw(got, "SubmissionError", "TypeError")
        ELSE IF Accepted(p) THEN StartMonitor(got)
        ELSE Throw(got, "SubmissionError",
                    IF p.error # "undefined" THEN p.error ELSE "Deployment failed")

\* Variant: a failed submit marks the record the name already has.
StoreAfterSubmitMarksFailed(i, st, n, r) ==
    LET p == ApiRequest(i, r) IN
    IF Accepted(p) THEN [st EXCEPT ![n] = NewRecord(p)]
    ELSE IF st[n] # NoRecord THEN [st EXCEPT ![n].status = "failed"]
    ELSE st

\* this.deployments.set(name, ...) / this.models.set(name, ...)
StoreAfterSubmit(i, st, n, r) ==
    LET p == ApiRequest(i, r) IN
    IF Accepted(p) THEN [st EXCEPT ![n] = NewRecord(p)] ELSE st

\* Variant: the record check is missing.
DeployedUnchecked(st, n) == TRUE

\* const deployment = this.deployments.get(modelName); if (!deployment) ...
Deployed(st, n) == st[n] # NoRecord

\* runInference up to its request, or its 'not deployed' error.
OnRunInference(st, n) ==
    LET cs == [IdleCall EXCEPT !.op = "infer", !.name = n] IN
    IF Deployed(st, n) THEN [cs EXCEPT !.pc = "infer", !.nreq = @ + 1]
    ELSE Throw(cs, "PreconditionError", "not deployed")

\* Variant: a rejected inference request is sent once more.
OnInferRetry(i, cs, r) ==
    LET p == InferRequest(i, r) IN
    IF ~p.resolved /\ cs.nreq < 2 THEN [cs EXCEPT !.nreq = @ + 1]
    ELSE IF ~p.resolved THEN Throw(cs, "InferenceError", p.error)
    ELSE IF p.isnull THEN Throw(cs, "InferenceError", "TypeError")
    ELSE Return(cs, "Result")

\* runInference after the inference response.
OnInfer(i, cs, r) ==
    LET p == InferRequest(i, r) IN
    IF ~p.resolved THEN Throw(cs, "InferenceError", p.error)
    ELSE IF p.isnull THEN Throw(cs, "InferenceError", "TypeError")
    ELSE Return(cs, "Result")

\* What list-models prints: name -> info.status, for every record.
listModels(st) == [n \in {m \in Names : st[m] # NoRecord} |-> st[n].status]

\* A status query made outside monitorDeployment (the status command):
\* getDeploymentStatus never throws, whatever the answer.
OnStatusOnly(i, cs, r) ==
    LET s == getDeploymentStatus(i, r) IN
    IF s.resolved THEN Return(cs, "Status") ELSE Throw(cs, "Error", s.error)

\* list-models: the OpenShift command prints the local records and is done;
\* the RHODS one asks the remote first.
OnListModels(i) ==
    LET cs == [IdleCall EXCEPT !.op = "list"] IN
    IF i = "openshift" THEN Return(cs, "Listed")
    ELSE [cs EXCEPT !.pc = "list", !.nreq = @ + 1]

\* Calls are numbered in the order they are made.
CanStart(c) ==
    /\ calls[c].pc = "idle"
    /\ \A d \in Calls : d < c => calls[d].pc # "idle"

(* ------------------------------ actions -------------------------------- *)
\* deployModel(modelConfig) up to the submit request (RHODS authenticates
\* first, which always succeeds).
DeployModel(c, n) ==
    /\ CanStart(c)
    /\ calls' = [calls EXCEPT ![c] =
                   [IdleCall EXCEPT !.op = "deploy", !.name = n,
                                    !.pc = "submit", !.nreq = 1]]
    /\ authToken' = (authToken \/ impl = "rhods")
    /\ UNCHANGED <<proc, boot, impl, store, accepted>>

SubmitResponse(c) ==
    /\ calls[c].pc = "submit"
    /\ \E r \in SubmitResponses :
         /\ calls' = [calls EXCEPT ![c] = OnSubmit(impl, calls[c], r)]
         /\ store' = StoreAfterSubmit(impl, store, calls[c].name, r)
         /\ accepted' = IF SubmitClass(r) = "accepted"
                        THEN [accepted EXCEPT ![calls[c].name] = r.endpoint]
                        ELSE accepted
    /\ UNCHANGED <<proc, boot, impl, authToken>>

StatusResponse(c) ==
    /\ calls[c].pc = "query"
    /\ \E r \in StatusResponses :
         calls' = [calls EXCEPT ![c] = OnStatus(impl, calls[c], r)]
    /\ UNCHANGED <<proc, boot, impl, store, authToken, accepted>>

\* The sleep timer fires: next attempt, or the throw after the loop.
SleepDone(c) ==
    /\ calls[c].pc = "sleep"
    /\ calls' = [calls EXCEPT ![c] = NextAttempt(calls[c])]
    /\ UNCHANGED <<proc, boot, impl, store, authToken, accepted>>

RunInference(c, n) ==
    /\ CanStart(c)
    /\ calls' = [calls EXCEPT ![c] = OnRunInference(store, n)]
    /\ UNCHANGED <<proc, boot, impl, store, authToken, accepted>>

InferResponse(c) ==
    /\ calls[c].pc = "infer"
    /\ \E r \in InferResponses :
         calls' = [calls EXCEPT ![c] = OnInfer(impl, calls[c], r)]
    /\ UNCHANGED <<proc, boot, impl, store, authToken, accepted>>

\* getDeploymentStatus(modelName) called on its own.
GetDeploymentStatus(c, n) ==
    /\ CanStart(c)
    /\ calls' = [calls EXCEPT ![c] =
                   [IdleCall EXCEPT !.op = "status", !.name = n,
                                    !.pc = "status", !.nreq = 1]]
    /\ UNCHANGED <<proc, boot, impl, store, authToken, accepted>>

StatusOnlyResponse(c) ==
    /\ calls[c].pc = "status"
    /\ \E r \in StatusResponses :
         calls' = [calls EXCEPT ![c] = OnStatusOnly(impl, calls[c], r)]
    /\ UNCHANGED <<proc, boot, impl, store, authToken, accepted>>

ListModels(c) ==
    /\ CanStart(c)
    /\ calls' = [calls EXCEPT ![c] = OnListModels(impl)]
    /\ UNCHANGED <<proc, boot, impl, store, authToken, accepted>>

\* The answer to GET /api/models: printed, or the error is caught and logged.
ListResponse(c) ==
    /\ calls[c].pc = "list"
    /\ calls' = [calls EXCEPT ![c] = Return(calls[c], "Listed")]
    /\ UNCHANGED <<proc, boot, impl, store, authToken, accepted>>

Next ==
    \E c \in Calls :
        \/ \E n \in DeployNames : DeployModel(c, n)
        \/ SubmitResponse(c)
        \/ StatusResponse(c)
        \/ SleepDone(c)
        \/ \E n \in Names : RunInference(c, n)
        \/ InferResponse(c)
        \/ \E n \in Names : GetDeploymentStatus(c, n)
        \/ StatusOnlyResponse(c)
        \/ ListModels(c)
        \/ ListResponse(c)

Spec == Init /\ [][Next]_vars

(* ------------------------------- the CLIs ------------------------------- *)
\* this.commands of each CLI class: command word -> the method whose bound
\* copy the constructor stores.
OpenShiftCommands ==
    ("deploy-model" :> "deployModel") @@ ("list-models" :> "listModels")
    @@ ("infer" :> "runInference") @@ ("status" :> "getDeploymentStatus")
    @@ ("init-openshift" :> "initOpenShift") @@ ("help" :> "showHelp")
RhodsCommands ==
    ("auth" :> "authenticate") @@ ("create-pipeline" :> "createPipeline")
    @@ ("create-automated" :> "createAutomatedPipeline")
    @@ ("deploy-model" :> "deployModel") @@ ("list-pipelines" :> "listPipelines")
    @@ ("list-models" :> "listModels") @@ ("infer" :> "runInference")
    @@ ("status" :> "getStatus") @@ ("setup-cluster" :> "setupCluster")
    @@ ("help" :> "showHelp")

\* The methods each CLI class defines.
OpenShiftCliMethods ==
    {"deployModel", "listModels", "runInference", "getDeploymentStatus",
     "initOpenShift", "detectModelFiles", "detectFramework", "getRequirements",
     "parseInferenceData", "showHelp", "execute"}
RhodsCliMethods ==
    {"authenticate", "createPipeline", "createAutomated", "deployModel",
     "listPipelines", "listModels", "runInference", "getStatus", "setupCluster",
     "detectModelFiles", "parseInferenceData", "showHelp", "execute"}

CommandsOf(i) == IF i = "openshift" THEN OpenShiftCommands ELSE RhodsCommands
MethodsOf(i) == IF i = "openshift" THEN OpenShiftCliMethods ELSE RhodsCliMethods

\* The constructor evaluates this.<method>.bind(this) for every entry: it
\* throws a TypeError when the class has no method of that name.
Constructs(i) ==
    \A k \in DOMAIN CommandsOf(i) : CommandsOf(i)[k] \in MethodsOf(i)

\* execute(): const handler = this.commands[command]
Handler(i, cmd) ==
    IF cmd \in DOMAIN CommandsOf(i) THEN CommandsOf(i)[cmd] ELSE "none"

\* The command words tried: those of the RHODS help, and one that no table
\* has.
CliCommands == DOMAIN RhodsCommands \cup {"bogus"}

\* The library call a handler makes, up to its first await; found: the
\* OpenShift deploy-model found a model file.  A fresh process has an empty
\* store.
HandlerCall(i, h, n, found) ==
    IF h = "deployModel" /\ (found \/ i = "rhods")
    THEN [IdleCall EXCEPT !.op = "deploy", !.name = n, !.pc = "submit", !.nreq = 1]
    ELSE IF h = "runInference" THEN OnRunInference([m \in Names |-> NoRecord], n)
    ELSE IF h \in {"getDeploymentStatus", "getStatus"}
         THEN [IdleCall EXCEPT !.op = "status", !.name = n,
                               !.pc = "status", !.nreq = 1]
    ELSE IF h = "listModels" THEN OnListModels(i)
    ELSE IdleCall

\* The process of one CLI invocation, from main to the first await of the
\* handler (the requests of the handlers not named in HandlerCall are not
\* followed: such a command counts as completed at once).
OnInvoke(i, cmd, n, found) ==
    LET h == Handler(i, cmd)
        p == [NoProc EXCEPT !.cmd = cmd, !.model = n]
    IN  IF ~Constructs(i) THEN [p EXCEPT !.end = "crashed", !.log = "TypeError"]
        ELSE IF h = "none"
             THEN [p EXCEPT !.end = "completed", !.log = "Unknown command"]
        ELSE IF h = "deployModel" /\ i = "openshift" /\ ~found
             THEN [p EXCEPT !.handler = h, !.end = "completed",
                            !.log = "No model files found"]
        ELSE IF HandlerCall(i, h, n, found) = IdleCall
             THEN [p EXCEPT !.handler = h, !.end = "completed"]
        ELSE [p EXCEPT !.handler = h]

\* try { await this.openShift.deployModel(...) } catch (error) { log }: the
\* handler's library call is over, its error (if any) is logged.
OnCommandEnd(p, cs) ==
    [p EXCEPT !.end = "completed",
              !.log = IF cs.how = "throw" THEN cs.errmsg ELSE "none"]

\* CLI invocations are processes run one after the other.
CanInvoke(c) ==
    /\ proc[c].cmd = "none"
    /\ \A d \in Calls : d < c => proc[d].end # "none"

\* node <cli>.js cmd n: a new process, with a new instance of the
\* integration class (empty store, no token).
Invoke(c, cmd, n, found) ==
    /\ CanInvoke(c)
    /\ proc' = [proc EXCEPT ![c] = OnInvoke(impl, cmd, n, found)]
    /\ calls' = [calls EXCEPT ![c] =
                   IF Constructs(impl)
                   THEN HandlerCall(impl, Handler(impl, cmd), n, found)
                   ELSE IdleCall]
    /\ store' = [m \in Names |-> NoRecord]
    /\ authToken' = (Constructs(impl) /\ impl = "rhods"
                        /\ Handler(impl, cmd) = "deployModel")
    /\ UNCHANGED <<impl, accepted, boot>>

CommandEnds(c) ==
    /\ proc[c].handler # "none" /\ proc[c].end = "none"
    /\ calls[c].pc = "done"
    /\ proc' = [proc EXCEPT ![c] = OnCommandEnd(proc[c], calls[c])]
    /\ UNCHANGED <<impl, store, authToken, calls, accepted, boot>>

CliNext ==
    \E c \in Calls :
        \/ \E cmd \in CliCommands, n \in DeployNames, found \in BOOLEAN :
              Invoke(c, cmd, n, found)
        \/ SubmitResponse(c)
        \/ StatusResponse(c)
        \/ SleepDone(c)
        \/ StatusOnlyResponse(c)
        \/ CommandEnds(c)

CliSpec == Init /\ [][CliNext]_vars

(* ----------------------------- bootstrap.js ----------------------------- *)
RequiredFiles == {"package.json", "tsconfig.json", "node_modules"}
LibStates == {"ok", "missing", "broken"}

\* AutoBootstrap.needsSetup
needsSetup(b) == ~(\A f \in RequiredFiles : f \in b.files)

\* ensureSetup as called by who: the setup script is spawned when setup is
\* needed, otherwise the promise resolves at once.
ensureSetup(b, who) ==
    IF needsSetup(b) THEN [b EXCEPT !.pc = "setup", !.from = who]
    ELSE IF who = "main" THEN [b EXCEPT !.pc = "start"]
    ELSE [b EXCEPT !.pc = "start", !.retries = @ + 1]

\* startCLI: require('./lib/index.js') and its catch block.
startCLI(b) ==
    IF b.lib = "ok" THEN [b EXCEPT !.pc = "loaded"]
    ELSE IF b.lib = "missing" THEN ensureSetup(b, "startCLI")
    ELSE [b EXCEPT !.pc = "exit1"]

\* The script is started with some of the required files and some state of
\* lib/index.js.
BootInit ==
    /\ impl = "openshift"
    /\ store = [n \in Names |-> NoRecord]
    /\ authToken = FALSE
    /\ calls = [c \in Calls |-> IdleCall]
    /\ accepted = [n \in Names |-> "none"]
    /\ proc = [c \in Calls |-> NoProc]
    /\ \E fs \in SUBSET RequiredFiles, l \in LibStates :
          boot = [BootOff EXCEPT !.files = fs, !.lib = l, !.pc = "main"]

\* main: bootstrap.ensureSetup().then(() => bootstrap.startCLI())
BootMain ==
    /\ boot.pc = "main"
    /\ boot' = ensureSetup(boot, "main")
    /\ UNCHANGED <<impl, store, authToken, calls, accepted, proc>>

\* The setup child process closes with an exit code, having left the files
\* in some state; code 0 resolves the promise (main goes on to startCLI, the
\* catch block of startCLI retries), any other code ends in process.exit(1).
SetupCloses ==
    /\ boot.pc = "setup"
    /\ \E code \in {0, 1}, fs \in SUBSET RequiredFiles, l \in LibStates :
          boot' = IF code = 0
                  THEN [boot EXCEPT !.files = fs, !.lib = l, !.pc = "start",
                                    !.retries = IF boot.from = "startCLI"
                                                THEN @ + 1 ELSE @]
                  ELSE [boot EXCEPT !.files = fs, !.lib = l, !.pc = "exit1"]
    /\ UNCHANGED <<impl, store, authToken, calls, accepted, proc>>

StartCLI ==
    /\ boot.pc = "start"
    /\ boot.retries < MaxRetries
    /\ boot' = startCLI(boot)
    /\ UNCHANGED <<impl, store, authToken, calls, accepted, proc>>

BootNext == BootMain \/ SetupCloses \/ StartCLI

BootSpec == BootInit /\ [][BootNext]_vars

\* One deployModel call run on its own, from the submit to the outcome of
\* its poll session.
SessionNext ==
    \/ \E n \in DeployNames : DeployModel(1, n)
    \/ SubmitResponse(1)
    \/ StatusResponse(1)
    \/ SleepDone(1)

\* Every status request is answered or fails (the transport settles the
\* promise either way) and every sleep timer fires.
SessionFairness == WF_vars(StatusResponse(1)) /\ WF_vars(SleepDone(1))

SessionSpec == Init /\ [][SessionNext]_vars /\ SessionFairness

(* ------------------------------ properties ------------------------------ *)
\* Call c has entered monitorDeployment.
Session(c) == calls[c].op = "deploy" /\ calls[c].nq >= 1

\* Messages of the errors a request wrapper rejects with.
RequestErrors == {"transport", "Invalid response", "HTTP", RemoteMsg}

\* C1: an attempt whose status is a failed synonym ends the session at that
\* attempt, with outcome Failed and as many queries as attempts, whatever
\* budget remains.
CE_C1_FailedEndsSession ==
    \A c \in Calls :
        calls[c].status \in FailedSynonyms
            => /\ calls[c].pc = "done"
               /\ calls[c].outcome = "Failed"
               /\ calls[c].nq = calls[c].attempt

\* C2: the first attempt that returns a ready synonym, after non-terminal
\* statuses only, ends the session at that attempt with outcome Ready and as
\* many queries as attempts.
CE_C2_ReadyEndsSession ==
    \A c \in Calls :
        (calls[c].status \in ReadySynonyms /\ calls[c].priorPending)
            => /\ calls[c].pc = "done"
               /\ calls[c].outcome = "Ready"
               /\ calls[c].nq = calls[c].attempt

\* Every attempt of the finished session of c returned a non-terminal status.
AllPending(c) ==
    /\ calls[c].priorPending
    /\ calls[c].status = "none" \/ PendingStatus(calls[c].status)

\* C3: no session issues more than maxAttempts status queries, and a session
\* whose attempts all returned non-terminal statuses ends, after exactly
\* maxAttempts queries, with the 'Deployment timeout' error.
Thm_C3_TimeoutAfterBudget ==
    \A c \in Calls :
        /\ calls[c].nq <= maxAttempts
        /\ (Session(c) /\ calls[c].pc = "done" /\ AllPending(c))
              => /\ calls[c].outcome = "Timeout"
                 /\ calls[c].errmsg = "Deployment timeout"
                 /\ calls[c].nq = maxAttempts
                 /\ calls[c].attempt = maxAttempts

W_C3_TimedOut ==
    \E c \in Calls :
        /\ Session(c) /\ calls[c].pc = "done" /\ AllPending(c)
        /\ calls[c].outcome = "Timeout" /\ calls[c].nq = maxAttempts

\* C4: a monitorDeployment invocation is finished exactly when it has an
\* outcome, the outcome is one of Ready, Failed, Timeout or a rethrown error,
\* and once the outcome exists nothing of the call changes any more (no
\* second outcome, no query, no sleep).
OneOutcome ==
    \A c \in Calls :
        Session(c) =>
            /\ (calls[c].pc = "done") <=> (calls[c].outcome # "none")
            /\ calls[c].outcome \in {"none", "Ready", "Failed", "Timeout", "Error"}
            /\ calls[c].pc \in {"query", "sleep", "done"}

Thm_C4_ExactlyOneOutcome ==
    /\ []OneOutcome
    /\ [][\A c \in Calls :
            (calls[c].pc = "done" \/ calls[c].outcome # "none")
                => calls'[c] = calls[c]]_vars

W_C4_TwoOutcomes ==
    \E c, d \in Calls :
        /\ Session(c) /\ calls[c].outcome = "Ready"
        /\ Session(d) /\ calls[d].outcome = "Timeout"

\* C5: every status query after the first is preceded by a sleep of its own:
\* a call waiting for a status response has slept once less than it has
\* queried, a sleeping call has slept as often as it has queried.
Thm_C5_SleepBetweenQueries ==
    \A c \in Calls :
        /\ calls[c].nq <= calls[c].ns + 1
        /\ calls[c].pc = "query" => calls[c].ns = calls[c].nq - 1
        /\ calls[c].pc = "sleep" => calls[c].ns = calls[c].nq

\* A second query goes out in a session whose first attempt did not return a
\* non-terminal status (its error was caught and slept on).
W_C5_QueryAfterCaughtError ==
    \E c \in Calls :
        /\ calls[c].pc = "query" /\ calls[c].nq = 2 /\ calls[c].ns = 1
        /\ ~calls[c].priorPending

\* C6: after a transport or protocol error on the status query of a non-final
\* attempt the call has no outcome, holds a non-terminal status ('unknown',
\* or no status at all), is in the one sleep of that attempt, and its next
\* step is the query of the next attempt.
ErrorIsPending ==
    \A c \in Calls :
        (calls[c].qerr /\ calls[c].attempt < maxAttempts)
            => /\ calls[c].pc = "sleep"
               /\ calls[c].outcome = "none"
               /\ calls[c].errmsg = "none"
               /\ calls[c].status \in {"unknown", "undefined"}
               /\ calls[c].ns = calls[c].attempt

Thm_C6_ErrorSwallowed ==
    /\ []ErrorIsPending
    /\ [][\A c \in Calls :
            (calls[c].qerr /\ calls[c].attempt < maxAttempts /\ calls'[c] # calls[c])
                => /\ calls'[c].pc = "query"
                   /\ calls'[c].attempt = calls[c].attempt + 1
                   /\ calls'[c].nq = calls[c].nq + 1
                   /\ calls'[c].ns = calls[c].ns]_vars

W_C6_RetriedAfterError ==
    \E c \in Calls :
        /\ calls[c].qerr /\ calls[c].attempt = 1 /\ calls[c].pc = "sleep"
        /\ calls[c].status = "unknown"

\* C7: when the status query of the final attempt fails with a transport or
\* protocol error, the session ends by throwing that error.
CE_C7_FinalErrorPropagated ==
    \A c \in Calls :
        (Session(c) /\ calls[c].attempt = maxAttempts /\ calls[c].qerr)
            => /\ calls[c].pc = "done"
               /\ calls[c].outcome = "Error"
               /\ calls[c].errmsg \in RequestErrors

\* C8: once a call's submit was answered 2xx with success, the store holds a
\* record for its name with status 'deploying' and the endpoint of the latest
\* accepted submit for that name; status queries are only issued by calls
\* whose record has been inserted.
Thm_C8_RecordOnAccept ==
    \A c \in Calls :
        /\ calls[c].sub = "accepted"
              => /\ accepted[calls[c].name] \in Endpoints
                 /\ store[calls[c].name] =
                       [status |-> "deploying", endpoint |-> accepted[calls[c].name]]
        /\ calls[c].nq >= 1
              => calls[c].sub = "accepted" /\ store[calls[c].name] # NoRecord

W_C8_RecordInserted ==
    \E c \in Calls :
        /\ calls[c].sub = "accepted" /\ calls[c].pc = "query" /\ calls[c].nq = 1
        /\ store[calls[c].name] = [status |-> "deploying", endpoint |-> "e2"]

\* C9: a deployModel call whose submit is answered by anything but 2xx with
\* success ends with an error and without a status query; the error of a
\* non-2xx JSON answer is the remote's message, or the HTTP status when there
\* is none; the step that receives such an answer leaves the store unchanged.
SubmitFailureReported ==
    \A c \in Calls :
        calls[c].sub \notin {"none", "accepted"}
            => /\ calls[c].pc = "done"
               /\ calls[c].outcome = "SubmissionError"
               /\ calls[c].errmsg # "none"
               /\ calls[c].nq = 0
               /\ calls[c].sub \in {"http-message", "refused-message"}
                     => calls[c].errmsg = RemoteMsg
               /\ calls[c].sub = "http" => calls[c].errmsg = "HTTP"

Thm_C10_GhostModel ==
    /\ [](\A c \in Calls :
            calls[c].outcome = "PreconditionError"
                => calls[c].nreq = 0 /\ calls[c].errmsg = "not deployed")
    /\ [][\A c \in Calls :
            (calls[c].pc = "idle" /\ calls'[c].op = "infer"
               /\ store[calls'[c].name] = NoRecord)
                => /\ calls'[c].pc = "done"
                   /\ calls'[c].outcome = "PreconditionError"
                   /\ calls'[c].nreq = 0]_vars

W_C10_GhostModel ==
    \E c, d \in Calls :
        /\ calls[c].op = "infer" /\ calls[c].name = "ghost-model"
        /\ calls[c].outcome = "PreconditionError" /\ calls[c].nreq = 0
        /\ calls[d].sub = "accepted"

\* A poll session for name n has ended with outcome Ready.
EndedReady(n) ==
    \E d \in Calls :
        calls[d].op = "deploy" /\ calls[d].name = n /\ calls[d].outcome = "Ready"

\* C11: a runInference call sends its request only for a name one of whose
\* poll sessions has ended Ready; for any other name it ends with the
\* 'not deployed' error and without a request.
CE_C11_InferOnlyWhenReady ==
    \A c \in Calls :
        calls[c].op = "infer" =>
            IF EndedReady(calls[c].name)
            THEN calls[c].nreq <= 1
            ELSE /\ calls[c].nreq = 0
                 /\ calls[c].outcome = "PreconditionError"
                 /\ calls[c].errmsg = "not deployed"

\* C12: a session ends with the 'Deployment timeout' error only from its
\* last attempt, after maxAttempts queries, and only if the status that
\* attempt returned is not a failed synonym.
CE_C12_TimeoutOnlyWithoutFailure ==
    [][\A c \in Calls :
         (calls[c].outcome = "none" /\ calls'[c].outcome = "Timeout")
            => /\ calls[c].attempt = maxAttempts
               /\ calls[c].nq = maxAttempts
               /\ calls'[c].errmsg = "Deployment timeout"
               /\ calls[c].status \notin FailedSynonyms]_vars

\* Messages of the Error thrown for a failed status.
FailedMessages ==
    {"Deployment failed: undefined", "Deployment failed: Unknown error",
     "Deployment failed: boom"}

\* C13 as stated: a finished session delivers Ready and Failed as returned
\* values, and the timeout and a final-attempt error as thrown errors.
CE_C13_FailedReturned ==
    \A c \in Calls :
        (Session(c) /\ calls[c].pc = "done")
            => /\ calls[c].outcome \in {"Ready", "Failed"} => calls[c].how = "return"
               /\ calls[c].outcome \in {"Timeout", "Error"} => calls[c].how = "throw"

\* C13 amended: Ready is the only outcome monitorDeployment returns; Failed,
\* the timeout and a final-attempt error are all thrown, and they differ by
\* their message only ('Deployment failed: ...', 'Deployment timeout', or
\* the message of the error itself).
Thm_C13_OnlyReadyReturned ==
    \A c \in Calls :
        (Session(c) /\ calls[c].pc = "done")
            => /\ (calls[c].how = "return") <=> (calls[c].outcome = "Ready")
               /\ (calls[c].how = "throw")
                     <=> (calls[c].outcome \in {"Failed", "Timeout", "Error"})
               /\ (calls[c].outcome = "Failed") <=> (calls[c].errmsg \in FailedMessages)
               /\ (calls[c].outcome = "Timeout")
                     <=> (calls[c].errmsg = "Deployment timeout")

\* One session has thrown Failed, another has returned Ready.
W_C13_FailedThrown ==
    \E c, d \in Calls :
        /\ Session(c) /\ calls[c].outcome = "Failed" /\ calls[c].how = "throw"
        /\ calls[c].errmsg \in FailedMessages
        /\ Session(d) /\ calls[d].outcome = "Ready" /\ calls[d].how = "return"

\* C14: once a deployModel call has ended Ready, the record of its name has
\* status 'ready', and list-models prints 'ready' for it.
CE_C14_RecordReady ==
    \A c \in Calls :
        (calls[c].op = "deploy" /\ calls[c].outcome = "Ready")
            => /\ store[calls[c].name].status = "ready"
               /\ calls[c].name \in DOMAIN listModels(store)
               /\ listModels(store)[calls[c].name] = "ready"

\* Call c is inside the poll loop started for name n.
Polling(c, n) ==
    /\ calls[c].op = "deploy" /\ calls[c].name = n
    /\ calls[c].pc \in {"query", "sleep"}

\* C15: a step changes the status of an existing record only if it is a step
\* of a poll loop started for the record's name; a submit response (also of
\* a second deployModel for the name), a status query outside a session,
\* runInference and list-models leave the status of every existing record
\* as it is.
Thm_C15_StatusFrame ==
    [][\A n \in Names :
         (store[n] # NoRecord /\ store'[n].status # store[n].status)
            => \E c \in Calls : Polling(c, n) /\ calls'[c] # calls[c]]_vars

\* A second deployModel for a name was accepted and has replaced the record
\* of the first, which is still being polled.
W_C15_RecordReplaced ==
    \E c, d \in Calls :
        /\ c < d /\ calls[c].name = calls[d].name
        /\ calls[c].sub = "accepted" /\ calls[c].pc = "sleep"
        /\ calls[d].sub = "accepted" /\ calls[d].pc = "query"
        /\ store[calls[d].name] = [status |-> "deploying", endpoint |-> "e2"]

\* A step in which the session of c gets its outcome is the answer to a
\* status query, or the end of the sleep of attempt maxAttempts.
EndsOnlyByItself ==
    \A c \in Calls :
        (Session(c) /\ calls[c].pc # "done" /\ calls'[c].pc = "done")
            => \/ /\ calls[c].pc = "query"
                  /\ calls'[c].outcome \in {"Ready", "Failed", "Error"}
               \/ /\ calls[c].pc = "sleep" /\ calls[c].attempt = maxAttempts
                  /\ calls'[c].outcome = "Timeout"

\* C16: when status queries are answered and sleeps end, every session that
\* was started gets its outcome; it never issues more than maxAttempts
\* status queries, and it ends only by a terminal answer or by the end of
\* its budget.
Thm_C16_SessionTerminates ==
    /\ \A c \in Calls : Session(c) ~> (calls[c].pc = "done" /\ calls[c].outcome # "none")
    /\ [](\A c \in Calls : calls[c].nq <= maxAttempts /\ calls[c].attempt <= maxAttempts)
    /\ [][EndsOnlyByItself]_vars

\* A session has run to the end of its budget, on errors only.
W_C16_RanOutOfBudget ==
    \E c \in Calls :
        /\ Session(c) /\ calls[c].outcome = "Timeout" /\ ~calls[c].priorPending
        /\ calls[c].nq = maxAttempts /\ calls[c].ns = maxAttempts

\* C17: a deployModel call sends one submit request, whatever the answer:
\* of its requests all but one are status queries, and a call whose submit
\* failed has ended with that one request.
Thm_C17_OneSubmit ==
    \A c \in Calls :
        calls[c].op = "deploy"
            => /\ calls[c].nreq - calls[c].nq = 1
               /\ calls[c].pc = "submit" => calls[c].sub = "none"
               /\ calls[c].sub \notin {"none", "accepted"}
                     => calls[c].nreq = 1 /\ calls[c].pc = "done"

\* Two deployModel calls failed at the submit, one on the transport, one on
\* a refusal; each has sent one request.
W_C17_FailedSubmits ==
    \E c, d \in Calls :
        /\ calls[c].op = "deploy" /\ calls[c].sub = "transport" /\ calls[c].nreq = 1
        /\ calls[d].op = "deploy" /\ calls[d].sub = "refused" /\ calls[d].nreq = 1
        /\ calls[c].pc = "done" /\ calls[d].pc = "done"

\* C18: a call issues status queries only after its own submit was accepted
\* (and so after the accepted submit for its name); the step that receives
\* an accepted submit is the one that issues the first query, and the step
\* that receives any other answer ends the call with the submission error
\* and no query.
Thm_C18_PollAfterAccept ==
    /\ [](\A c \in Calls :
            calls[c].nq >= 1
                => /\ calls[c].op = "deploy" /\ calls[c].sub = "accepted"
                   /\ accepted[calls[c].name] # "none")
    /\ [][\A c \in Calls :
            (calls[c].pc = "submit" /\ calls'[c] # calls[c])
                => IF calls'[c].sub = "accepted"
                   THEN /\ calls'[c].pc = "query" /\ calls'[c].nq = 1
                        /\ calls'[c].attempt = 1 /\ calls'[c].outcome = "none"
                   ELSE /\ calls'[c].pc = "done" /\ calls'[c].nq = 0
                        /\ calls'[c].outcome = "SubmissionError"
                        /\ calls'[c].how = "throw"
                        /\ calls'[c].errmsg # "none"]_vars

\* One call is polling after its accepted submit, another was refused with
\* the remote's message and has not polled.
W_C18_OnePollsOneRefused ==
    \E c, d \in Calls :
        /\ calls[c].sub = "accepted" /\ calls[c].nq >= 1
        /\ calls[d].sub = "refused-message" /\ calls[d].nq = 0
        /\ calls[d].outcome = "SubmissionError" /\ calls[d].errmsg = RemoteMsg

\* C19: no two calls are inside the poll loop for the same name at the same
\* time.
CE_C19_OnePollerPerName ==
    \A c, d \in Calls :
        \A n \in Names : (Polling(c, n) /\ Polling(d, n)) => c = d

\* The status string as each poller classifies it, and as spec section 4.2
\* does.
Classify(i, st) ==
    IF isReady(i, st) THEN "Ready" ELSE IF isFailed(i, st) THEN "Failed" ELSE "NonTerminal"
SpecClassify(st) ==
    IF st \in ReadySynonyms THEN "Ready"
    ELSE IF st \in FailedSynonyms THEN "Failed" ELSE "NonTerminal"

\* C20: every status string a session receives is classified in the same
\* way by the OpenShift poller and by the RHODS poller, namely the
\* synonyms 'ready'/'succeeded' as Ready, 'failed'/'error' as Failed and
\* any other string as non-terminal.
CE_C20_SameClassification ==
    \A c \in Calls :
        (Session(c) /\ calls[c].status \notin {"none", "null", "rejected"})
            => /\ Classify("openshift", calls[c].status)
                     = Classify("rhods", calls[c].status)
               /\ Classify(impl, calls[c].status) = SpecClassify(calls[c].status)

\* C21: the last attempt is not followed by a sleep: no call sleeps at
\* attempt maxAttempts, and a session that timed out has slept
\* maxAttempts - 1 times.
CE_C21_NoSleepAfterLastAttempt ==
    \A c \in Calls :
        /\ calls[c].pc = "sleep" => calls[c].attempt < maxAttempts
        /\ (Session(c) /\ calls[c].outcome = "Timeout")
              => calls[c].ns = maxAttempts - 1

\* C22: a non-terminal status ('deploying', 'unknown', a missing status) is
\* classified as non-terminal on every attempt and after any earlier
\* responses: the call that received it is in the sleep of that attempt
\* without an outcome, and its next step is the next query, or the timeout
\* when the budget is used up, never Ready or Failed.
Thm_C22_NonTerminalStaysNonTerminal ==
    /\ [](\A c \in Calls :
            (Session(c) /\ PendingStatus(calls[c].status))
                => /\ calls[c].pc = "sleep" /\ calls[c].outcome = "none"
                   /\ ~isReady(impl, calls[c].status)
                   /\ ~isFailed(impl, calls[c].status))
    /\ [][\A c \in Calls :
            (PendingStatus(calls[c].status) /\ calls'[c] # calls[c])
                => \/ /\ calls[c].attempt < maxAttempts
                      /\ calls'[c].pc = "query" /\ calls'[c].outcome = "none"
                   \/ /\ calls[c].attempt = maxAttempts
                      /\ calls'[c].outcome = "Timeout"]_vars

\* On the last attempt, after non-terminal statuses only, the remote still
\* answers 'deploying'.
W_C22_StillDeploying ==
    \E c \in Calls :
        /\ Session(c) /\ calls[c].attempt = maxAttempts /\ calls[c].priorPending
        /\ calls[c].status = "deploying" /\ calls[c].pc = "sleep"

\* C23: a runInference call that found the record sends one inference
\* request and ends with its answer: it sends no second request and no
\* status query, it does not sleep, and none of its steps changes the store.
Thm_C23_OneInferenceRequest ==
    /\ [](\A c \in Calls :
            calls[c].op = "infer"
                => /\ calls[c].nreq <= 1 /\ calls[c].nq = 0 /\ calls[c].ns = 0
                   /\ calls[c].pc = "infer" => calls[c].nreq = 1
                   /\ calls[c].outcome \in {"Result", "InferenceError"}
                         => calls[c].pc = "done" /\ calls[c].nreq = 1)
    /\ [][\A c \in Calls :
            (calls'[c].op = "infer" /\ calls'[c] # calls[c])
                => /\ store' = store
                   /\ calls[c].pc = "infer" => calls'[c].pc = "done"]_vars

\* An inference request for a deployed model failed on the transport; the
\* call has ended with that one request and the record is still there.
W_C23_FailedOnce ==
    \E c \in Calls :
        /\ calls[c].op = "infer" /\ calls[c].outcome = "InferenceError"
        /\ calls[c].errmsg = "transport" /\ calls[c].nreq = 1
        /\ store[calls[c].name] # NoRecord

\* C24: the error of a session that ended Failed carries the remote's
\* message, or a generic readable one when the remote gave none.
CE_C24_FailedMessageReadable ==
    \A c \in Calls :
        (Session(c) /\ calls[c].outcome = "Failed")
            => calls[c].errmsg \in
                  {"Deployment failed: boom", "Deployment failed: Unknown error"}

\* C27: whatever answer a waiting runInference call gets, a transport
\* failure, a non-2xx status or an unparseable body ends it with an error,
\* and the two classes end it with the same kind of outcome.
CE_C27_InferenceErrors ==
    \A c \in Calls :
        calls[c].pc = "infer" =>
            \A r \in InferResponses :
                /\ (TransportError(r) \/ ProtocolError(r))
                      => OnInfer(impl, calls[c], r).outcome = "InferenceError"
                /\ OnInfer("openshift", calls[c], r).outcome
                      = OnInfer("rhods", calls[c], r).outcome

\* C30: on a RHODSIntegration instance, a call that has sent a request has
\* sent it with the authentication token set.
CE_C30_RequestsAuthenticated ==
    impl = "rhods" =>
        \A c \in Calls : calls[c].nreq >= 1 => authToken

\* C29: bootstrap.js goes through at most one 'run setup, then retry
\* startCLI' cycle before the CLI is loaded or the process exits.
CE_C29_AtMostOneRetry == boot.retries <= 1


\* C25: with the OpenShift CLI, once a deploy-model invocation has completed
\* with the model ready, a later infer invocation for the same model passes
\* the ready check and sends its inference request.
CE_C25_InferAfterDeployInvocation ==
    impl = "openshift" =>
        \A c, d \in Calls :
            (/\ d < c
             /\ proc[d].cmd = "deploy-model" /\ proc[d].end = "completed"
             /\ calls[d].outcome = "Ready"
             /\ proc[c].cmd = "infer" /\ proc[c].model = proc[d].model
             /\ proc[c].handler = "runInference")
            => (calls[c].outcome # "PreconditionError" /\ calls[c].nreq >= 1)

\* The handler the RHODS guide documents for each command word.
RhodsDocumented ==
    [RhodsCommands EXCEPT !["create-automated"] = "createAutomated"]

\* C26: the RHODS CLI invokes the handler of the command word it is given,
\* and for a word outside its table invokes no handler and shows the help.
CE_C26_RhodsDispatch ==
    impl = "rhods" =>
        \A c \in Calls :
            proc[c].cmd # "none" =>
                IF proc[c].cmd \in DOMAIN RhodsCommands
                THEN /\ proc[c].handler = RhodsDocumented[proc[c].cmd]
                     /\ proc[c].end # "crashed"
                ELSE /\ proc[c].handler = "none"
                     /\ proc[c].end = "completed"
                     /\ proc[c].log = "Unknown command"

\* C28: a deploy-model invocation never ends with an uncaught error: it
\* completes, and an error thrown by the library's deployModel is logged.
CE_C28_DeployErrorsCaught ==
    \A c \in Calls :
        (proc[c].cmd = "deploy-model" /\ proc[c].end # "none")
        => /\ proc[c].end = "completed"
           /\ calls[c].how = "throw" => proc[c].log = calls[c].errmsg

\* The same, for the OpenShift CLI alone.
OpenShiftDeployErrorsCaught ==
    impl = "openshift" => CE_C28_DeployErrorsCaught

====
